---- MODULE Spec2Model ----
(***************************************************************************)
(* A model of galileo's PMTiles support (src/layer/pmtiles.rs):            *)
(*   - PmtilesDirCache, the HashMap-behind-RwLock directory cache;         *)
(*   - PmtilesTileLoader::get_tile, the tile resolver;                     *)
(*   - the RasterTileLoader and VectorTileLoader implementations.          *)
(*                                                                         *)
(* Three specifications share the variables below:                         *)
(*   SpecSeq   one caller issuing whole cache calls, one after another;    *)
(*   SpecConc  parallel callers, every lock operation a step of its own;   *)
(*   SpecLoad  a raster and a vector load of the same tile index.          *)
(***************************************************************************)
EXTENDS Integers, Sequences, FiniteSets, TLC

(***************************************************************************)
(* Bounds of the model.                                                    *)
(***************************************************************************)
\* tile ids are 0 .. MaxTileId
MaxTileId == 1

\* fetched payloads have at most MaxLen bytes
MaxLen == 4

(***************************************************************************)
(* Values.                                                                 *)
(***************************************************************************)
\* HashMap keys: byte offsets of directories in the archive (usize)
Offsets == {0, 5}

TileIds == 0 .. MaxTileId

\* DirEntry values a directory can hold
Entries == {"e1", "e2"}

\* Option::None of Directory::find_tile_id
NoEntry == "NoEntry"

\* A pmtiles::Directory, seen through its one query find_tile_id
Directories == [TileIds -> Entries \cup {NoEntry}]

\* Option<Directory>, as HashMap::get gives it and as the ghost record of
\* inserts keeps it: None is the empty tuple, Some(d) the tuple of d
NoDir == << >>

SomeDir(directory) == <<directory>>

\* DirCacheResult
Found(entry) == [tag |-> "Found", entry |-> entry]

NotFound == [tag |-> "NotFound"]

NotCached == [tag |-> "NotCached"]

VARIABLES
    cache,          \* the HashMap<usize, Directory> behind the Arc<RwLock<..>>
    lastInserted,   \* ghost: offset -> the directory of the latest insert_dir, or NoDir
    replaced,       \* ghost: offsets whose directory an insert_dir replaced by another
    call,           \* SpecSeq: the call that ran last, with its result; an insert
                    \* is marked "again" when it repeats the call before it
    rwlock,         \* SpecConc: the RwLock: [readers, writer, poisoned]
    mapWriting,     \* SpecConc: TRUE while HashMap::insert is rewriting the table
    pc,             \* SpecConc: each caller's position
    arg,            \* SpecConc: each caller's arguments
    res,            \* SpecConc: each caller's result, and what it may have been
    index,          \* SpecLoad: the TileIndex both loads are asked for
    resp,           \* SpecLoad: what the archive reader answers for a coordinate
    lpc,            \* SpecLoad: each load's position
    req,            \* SpecLoad: each load's request-local state and observations
    arcOf,          \* SpecClone: the allocation each PmtilesDirCache value points to
    heap,           \* SpecClone: the map held by each allocation
    insertedVia,    \* SpecClone, ghost: offset -> the value the latest insert_dir used
    task            \* SpecReq: each caller's tile request inside the archive reader

cacheVars == <<cache, lastInserted, replaced>>

seqVars == <<call>>

concVars == <<rwlock, mapWriting, pc, arg, res>>

loadVars == <<index, resp, lpc, req>>

cloneVars == <<arcOf, heap, insertedVia>>

reqVars == <<task>>

vars == <<cache, lastInserted, replaced, call, rwlock, mapWriting, pc, arg, res,
          index, resp, lpc, req, arcOf, heap, insertedVia, task>>

(***************************************************************************)
(* HashMap<usize, Directory>: a function whose domain is the set of keys.  *)
(***************************************************************************)
EmptyMap == << >>

MapGet(m, k) == IF k \in DOMAIN m THEN SomeDir(m[k]) ELSE NoDir

\* a slip: an insert that keeps the value of a key already present
MapInsertKeepOld(m, k, v) ==
    [o \in DOMAIN m \cup {k} |-> IF o \in DOMAIN m THEN m[o] ELSE v]

\* a slip: an insert that drops every other key
MapInsertOnly(m, k, v) == [o \in {k} |-> v]

MapInsert(m, k, v) ==
    [o \in DOMAIN m \cup {k} |-> IF o = k THEN v ELSE m[o]]

FindTileId(dir, tile_id) == dir[tile_id]

\* the body of get_dir_entry, on the map the read guard gives access to
CacheLookup(m, offset, tile_id) ==
    LET dir == MapGet(m, offset) IN
    IF dir # NoDir
    THEN IF FindTileId(dir[1], tile_id) # NoEntry
         THEN Found(FindTileId(dir[1], tile_id))
         ELSE NotFound
    ELSE NotCached

(***************************************************************************)
(* Ghost bookkeeping of insert_dir calls, kept apart from the map.         *)
(***************************************************************************)
NoteInsert(offset, directory) ==
    /\ lastInserted' = [lastInserted EXCEPT ![offset] = SomeDir(directory)]
    /\ replaced' = IF lastInserted[offset] \notin {NoDir, SomeDir(directory)}
                   THEN replaced \cup {offset}
                   ELSE replaced

CacheInit ==
    /\ cache = EmptyMap
    /\ lastInserted = [o \in Offsets |-> NoDir]
    /\ replaced = {}

(***************************************************************************)
(* The callers of SpecConc, and the values the variables of a              *)
(* specification hold while another specification runs.                    *)
(***************************************************************************)
Procs == {"p1", "p2"}

NoProc == "NoProc"

NoCall == [op |-> "none"]

NoResult == [tag |-> "none"]

Loads == {"raster", "vector"}

\* PmtilesDirCache values: the one new() made and two clones
Handles == {"h0", "h1", "h2"}

\* allocations an Arc can point to
Allocs == {"a0", "a1", "a2"}

NoAlloc == "NoAlloc"

NoHandle == "NoHandle"

NoTask == [stage |-> "none"]

ConcIdle ==
    /\ rwlock = [readers |-> {}, writer |-> NoProc, poisoned |-> FALSE]
    /\ mapWriting = {}
    /\ pc = [p \in Procs |-> "idle"]
    /\ arg = [p \in Procs |-> NoCall]
    /\ res = [p \in Procs |-> NoResult]

LoadIdle ==
    /\ index = [z |-> 0, x |-> 0, y |-> 0]
    /\ resp = [tag |-> "none"]
    /\ lpc = [l \in Loads |-> "idle"]
    /\ req = [l \in Loads |-> [tag |-> "none"]]

\* new(): one value, pointing to a fresh allocation with an empty map
CloneIdle ==
    /\ arcOf = [h \in Handles |-> IF h = "h0" THEN "a0" ELSE NoAlloc]
    /\ heap = [a \in Allocs |-> EmptyMap]
    /\ insertedVia = [o \in Offsets |-> NoHandle]

ReqIdle == task = [p \in Procs |-> NoTask]

(***************************************************************************)
(* SpecSeq: whole calls of the DirectoryCache implementation, in sequence. *)
(***************************************************************************)
GetDirEntry(offset, tile_id) ==
    /\ call' = [op |-> "get", offset |-> offset, tile_id |-> tile_id,
                result |-> CacheLookup(cache, offset, tile_id)]
    /\ UNCHANGED cacheVars

InsertDir(offset, directory) ==
    /\ cache' = MapInsert(cache, offset, directory)
    /\ NoteInsert(offset, directory)
    /\ call' = [op |-> "insert", offset |-> offset, directory |-> directory,
                again |-> /\ call.op = "insert"
                          /\ call.offset = offset
                          /\ call.directory = directory]

InitSeq ==
    /\ CacheInit
    /\ call = NoCall
    /\ ConcIdle
    /\ LoadIdle
    /\ CloneIdle
    /\ ReqIdle

NextSeq ==
    \/ \E offset \in Offsets, tile_id \in TileIds :
          GetDirEntry(offset, tile_id)
             /\ UNCHANGED <<concVars, loadVars, cloneVars, reqVars>>
    \/ \E offset \in Offsets, directory \in Directories :
          InsertDir(offset, directory)
             /\ UNCHANGED <<concVars, loadVars, cloneVars, reqVars>>

SpecSeq == InitSeq /\ [][NextSeq]_vars

\* What the inserts made so far define for a lookup
Expected(offset, tile_id) ==
    IF lastInserted[offset] = NoDir
    THEN NotCached
    ELSE IF lastInserted[offset][1][tile_id] = NoEntry
         THEN NotFound
         ELSE Found(lastInserted[offset][1][tile_id])

\* C1: after any sequence of insert_dir and get_dir_entry calls, get_dir_entry
\* returns NotCached when no directory was ever inserted for the offset, and
\* otherwise Found(entry) or NotFound as the most recently inserted directory
\* for that offset defines for the tile id.
C1_LookupFollowsLatestInsert ==
    call.op = "get" => call.result = Expected(call.offset, call.tile_id)

\* a lookup that finds an entry of a directory that replaced an earlier one
C1_Witness ==
    /\ call.op = "get"
    /\ call.offset \in replaced
    /\ call.result.tag = "Found"
    /\ \E o \in Offsets : lastInserted[o] = NoDir

(***************************************************************************)
(* SpecConc: get_dir_entry and insert_dir from parallel callers.  Each     *)
(* call takes the RwLock, works on the map and drops its guard, one step   *)
(* at a time; HashMap::insert is two steps with the table unusable in      *)
(* between.                                                                *)
(***************************************************************************)
\* the directories the parallel callers insert
DirA == [t \in TileIds |-> "e1"]

DirB == [t \in TileIds |-> IF t = 0 THEN "e2" ELSE NoEntry]

ConcDirs == {DirA, DirB}

AllResults == {Found(e) : e \in Entries} \cup {NotFound, NotCached}

Panic == [tag |-> "panic"]

\* a slip: a read lock that does not wait for the writer
CanReadIgnoringWriter(l) == TRUE

\* RwLock::read succeeds when no writer holds the lock
CanRead(l) == l.writer = NoProc

\* RwLock::write succeeds when nobody holds the lock
CanWrite(l) == l.writer = NoProc /\ l.readers = {}

HoldsRead(p) == pc[p] \in {"get_find", "get_unlock"}

HoldsWrite(p) == pc[p] \in {"ins_begin", "ins_end", "ins_unlock"}

\* get_dir_entry is called: nothing is locked yet
CallGetDirEntry(p, offset, tile_id) ==
    /\ pc[p] = "idle"
    /\ pc' = [pc EXCEPT ![p] = "get_lock"]
    /\ arg' = [arg EXCEPT ![p] = [op |-> "get", offset |-> offset, tile_id |-> tile_id]]
    /\ res' = [res EXCEPT ![p] = [value |-> NoResult,
                                  allowed |-> {CacheLookup(cache, offset, tile_id)}]]
    /\ UNCHANGED <<cache, rwlock, mapWriting>>

\* self.cache.read().unwrap()
AcquireRead(p) ==
    /\ pc[p] = "get_lock"
    /\ CanRead(rwlock)
    /\ IF rwlock.poisoned
       THEN pc' = [pc EXCEPT ![p] = "panicked"] /\ UNCHANGED rwlock
       ELSE /\ pc' = [pc EXCEPT ![p] = "get_find"]
            /\ rwlock' = [rwlock EXCEPT !.readers = @ \cup {p}]
    /\ UNCHANGED <<cache, mapWriting, arg, res>>

\* what a read of the table gives: anything at all while an insert rewrites it
ReadOutcomes(p) ==
    IF mapWriting # {}
    THEN AllResults \cup {Panic}
    ELSE {CacheLookup(cache, arg[p].offset, arg[p].tile_id)}

\* .get(&offset), find_tile_id and entry.clone(), under the read guard
ReadMap(p) ==
    /\ pc[p] = "get_find"
    /\ \E r \in ReadOutcomes(p) :
          /\ res' = [res EXCEPT ![p].value = r]
          /\ pc' = [pc EXCEPT ![p] = IF r = Panic THEN "panicked" ELSE "get_unlock"]
    /\ UNCHANGED <<cache, rwlock, mapWriting, arg>>

\* a slip: the read guard is kept past the end of get_dir_entry
ReleaseReadLeaking(p) ==
    /\ pc[p] = "get_unlock"
    /\ pc' = [pc EXCEPT ![p] = "returned"]
    /\ UNCHANGED <<cache, rwlock, mapWriting, arg, res>>

\* the read guard, a temporary of the if-let, is dropped
ReleaseRead(p) ==
    /\ pc[p] = "get_unlock"
    /\ rwlock' = [rwlock EXCEPT !.readers = @ \ {p}]
    /\ pc' = [pc EXCEPT ![p] = "returned"]
    /\ UNCHANGED <<cache, mapWriting, arg, res>>

\* insert_dir is called: nothing is locked yet
CallInsertDir(p, offset, directory) ==
    /\ pc[p] = "idle"
    /\ pc' = [pc EXCEPT ![p] = "ins_lock"]
    /\ arg' = [arg EXCEPT ![p] = [op |-> "insert", offset |-> offset,
                                  directory |-> directory]]
    /\ res' = [res EXCEPT ![p] = NoResult]
    /\ UNCHANGED <<cache, rwlock, mapWriting>>

\* self.cache.write().unwrap()
AcquireWrite(p) ==
    /\ pc[p] = "ins_lock"
    /\ CanWrite(rwlock)
    /\ IF rwlock.poisoned
       THEN pc' = [pc EXCEPT ![p] = "panicked"] /\ UNCHANGED rwlock
       ELSE /\ pc' = [pc EXCEPT ![p] = "ins_begin"]
            /\ rwlock' = [rwlock EXCEPT !.writer = p]
    /\ UNCHANGED <<cache, mapWriting, arg, res>>

\* HashMap::insert starts to rewrite the table
InsertBegin(p) ==
    /\ pc[p] = "ins_begin"
    /\ mapWriting' = mapWriting \cup {p}
    /\ pc' = [pc EXCEPT ![p] = "ins_end"]
    /\ UNCHANGED <<cache, rwlock, arg, res>>

\* a lookup in flight that has not read the map yet may see this insert
SeesInsert(q, newCache) ==
    IF pc[q] \in {"get_lock", "get_find"}
    THEN [res[q] EXCEPT !.allowed =
             @ \cup {CacheLookup(newCache, arg[q].offset, arg[q].tile_id)}]
    ELSE res[q]

\* HashMap::insert is done: the table holds the directory
InsertEnd(p) ==
    /\ pc[p] = "ins_end"
    /\ cache' = MapInsert(cache, arg[p].offset, arg[p].directory)
    /\ mapWriting' = mapWriting \ {p}
    /\ res' = [q \in Procs |-> SeesInsert(q, cache')]
    /\ pc' = [pc EXCEPT ![p] = "ins_unlock"]
    /\ UNCHANGED <<rwlock, arg>>

\* a slip: the write guard is kept past the end of insert_dir
ReleaseWriteLeaking(p) ==
    /\ pc[p] = "ins_unlock"
    /\ pc' = [pc EXCEPT ![p] = "returned"]
    /\ UNCHANGED <<cache, rwlock, mapWriting, arg, res>>

\* the write guard is dropped at the end of the statement
ReleaseWrite(p) ==
    /\ pc[p] = "ins_unlock"
    /\ rwlock' = [rwlock EXCEPT !.writer = NoProc]
    /\ pc' = [pc EXCEPT ![p] = "returned"]
    /\ UNCHANGED <<cache, mapWriting, arg, res>>

\* the caller has its result and may call again
Return(p) ==
    /\ pc[p] = "returned"
    /\ pc' = [pc EXCEPT ![p] = "idle"]
    /\ arg' = [arg EXCEPT ![p] = NoCall]
    /\ res' = [res EXCEPT ![p] = NoResult]
    /\ UNCHANGED <<cache, rwlock, mapWriting>>

InitConc ==
    /\ CacheInit
    /\ call = NoCall
    /\ ConcIdle
    /\ LoadIdle
    /\ CloneIdle
    /\ ReqIdle

ConcFrame == UNCHANGED <<lastInserted, replaced, call, loadVars, cloneVars, reqVars>>

NextConc ==
    \/ \E p \in Procs, offset \in Offsets, tile_id \in TileIds :
          CallGetDirEntry(p, offset, tile_id) /\ ConcFrame
    \/ \E p \in Procs : AcquireRead(p) /\ ConcFrame
    \/ \E p \in Procs : ReadMap(p) /\ ConcFrame
    \/ \E p \in Procs : ReleaseRead(p) /\ ConcFrame
    \/ \E p \in Procs, offset \in Offsets, directory \in ConcDirs :
          CallInsertDir(p, offset, directory) /\ ConcFrame
    \/ \E p \in Procs : AcquireWrite(p) /\ ConcFrame
    \/ \E p \in Procs : InsertBegin(p) /\ ConcFrame
    \/ \E p \in Procs : InsertEnd(p) /\ ConcFrame
    \/ \E p \in Procs : ReleaseWrite(p) /\ ConcFrame
    \/ \E p \in Procs : Return(p) /\ ConcFrame

SpecConc == InitConc /\ [][NextConc]_vars

\* C2: with insert_dir and get_dir_entry running in parallel, no call panics,
\* a lookup returns what the map held at some moment between its call and its
\* read (before or after each concurrent insert, never a half-written table),
\* and a caller holding the write guard is alone in the map.
C2_ConcurrentCallsAreAtomic ==
    /\ \A p \in Procs : pc[p] # "panicked"
    /\ \A p \in Procs :
          (arg[p].op = "get" /\ pc[p] \in {"get_unlock", "returned"})
             => res[p].value \in res[p].allowed
    /\ \A p \in Procs :
          HoldsWrite(p) => \A q \in Procs \ {p} : ~HoldsRead(q) /\ ~HoldsWrite(q)
    /\ \A p \in mapWriting : HoldsWrite(p) /\ rwlock.writer = p

\* a lookup that overlapped an insert to its offset and read the map after it,
\* while the other caller waits for the write lock the reader still blocks
C2_Witness ==
    \E p \in Procs : \E q \in Procs \ {p} :
        /\ arg[p].op = "get" /\ pc[p] = "get_unlock"
        /\ Cardinality(res[p].allowed) = 2
        /\ res[p].value.tag = "Found"
        /\ arg[q].op = "insert" /\ pc[q] = "ins_lock"
        /\ arg[q].offset = arg[p].offset

(***************************************************************************)
(* SpecLoad: RasterTileLoader::load and VectorTileLoader::load of one      *)
(* PmtilesTileLoader, both asked for the same TileIndex and both answered  *)
(* the same way by the archive reader.  A load suspends where the code     *)
(* awaits: at reader.get_tile and at decode_image.                         *)
(***************************************************************************)
\* tile index coordinates are 0 .. MaxXY
MaxXY == 1

\* index.z as u8 keeps z modulo 2^8
U8Modulus == 256

\* index.x as u32 keeps x modulo 2^32, held as two 16-bit halves
U16Modulus == 65536

\* zoom levels a TileCoord can hold
MaxZoom == 255

\* gzip magic number, and the deflate method byte of a gzip header
GzipId1 == 31

GzipId2 == 139

GzipDeflate == 8

Zs == {0, 1, 2, 256, 257}

XYs == 0 .. MaxXY

TileIndexes == [z : Zs, x : XYs, y : XYs]

ByteValues == {GzipId1, GzipId2, GzipDeflate}

Payloads == UNION {[1 .. n -> ByteValues] : n \in 0 .. MaxLen}

\* Result<Option<Bytes>, PmtError> of AsyncPmTilesReader::get_tile
ReaderResponses ==
    {[tag |-> "Err"], [tag |-> "None"]} \cup {[tag |-> "Some", bytes |-> b] : b \in Payloads}

Ok(v) == [ok |-> TRUE, value |-> v]

Err(e) == [ok |-> FALSE, error |-> e]

\* Option: None is the empty tuple, Some(v) the tuple of v
None == << >>

Some(v) == <<v>>

AsU32(n) == [lo |-> n % U16Modulus, hi |-> (n \div U16Modulus) % U16Modulus]

\* v < 2^z for a u32 v held in halves
FitsZoom(v, z) ==
    IF z >= 32 THEN TRUE
    ELSE IF z >= 16 THEN v.hi < 2 ^ (z - 16)
    ELSE v.hi = 0 /\ v.lo < 2 ^ z

\* TileCoord::new: None for a zoom out of range or x, y outside the zoom's grid
TileCoordNew(z, x, y) ==
    IF z <= MaxZoom /\ FitsZoom(x, z) /\ FitsZoom(y, z)
    THEN Some([z |-> z, x |-> x, y |-> y])
    ELSE None

\* a slip: the zoom handed on without the cast
AsU8Unchecked(n) == n

AsU8(n) == n % U8Modulus

\* TileCoord::new(index.z as u8, index.x as u32, index.y as u32)
TileCoordOf(i) == TileCoordNew(AsU8(i.z), AsU32(i.x), AsU32(i.y))

\* a slip: the reader's error is passed on under another name
ReaderResultTransport(r) ==
    IF r.tag = "Some" THEN Ok(r.bytes)
    ELSE IF r.tag = "None" THEN Err("NotFound") ELSE Err("Transport")

\* .map_err(|_| GalileoError::NotFound)?.ok_or(GalileoError::NotFound)
ReaderResult(r) == IF r.tag = "Some" THEN Ok(r.bytes) ELSE Err("NotFound")

\* a slip: the resolver's error reported as a decoding error
VectorResolverErrorDecoding(e) == "Decoding"

\* .map_err(|_| TileLoadError::Network)
VectorResolverError(e) == "Network"

\* a slip: only the first byte of the magic number is compared
IsGzipFirstByteOnly(bytes) == Len(bytes) > 2 /\ bytes[1] = GzipId1

\* bytes.len() > 2 && bytes[0..2] == [0x1F, 0x8B]
IsGzip(bytes) == Len(bytes) > 2 /\ bytes[1] = GzipId1 /\ bytes[2] = GzipId2

\* GzDecoder::read_to_end, reduced to a header check: the stream must name the
\* deflate method, and what follows the header is the content
Gunzip(bytes) ==
    IF Len(bytes) >= 3 /\ bytes[1] = GzipId1 /\ bytes[2] = GzipId2 /\ bytes[3] = GzipDeflate
    THEN Ok(SubSeq(bytes, 4, Len(bytes)))
    ELSE Err("InvalidGzip")

\* a slip: bytes that fail to decompress are parsed as they are
VectorDecodeLenient(bytes, mvtOk) ==
    LET d == IF IsGzip(bytes) /\ Gunzip(bytes).ok THEN Gunzip(bytes).value ELSE bytes IN
    [gunzip |-> "none", decoderInput |-> Some(d),
     decoded |-> Some(IF mvtOk THEN Ok([mvt |-> d]) ELSE Err("MvtError")),
     log |-> IF mvtOk THEN << >> ELSE <<"Vector tile decoding error">>,
     result |-> IF mvtOk THEN Ok([mvt |-> d]) ELSE Err("Decoding")]

\* the rest of VectorTileLoader::load once the bytes are there; mvtOk is
\* whether MvtTile::decode accepts what it is given
VectorDecode(bytes, mvtOk) ==
    IF IsGzip(bytes) /\ ~Gunzip(bytes).ok
    THEN [gunzip |-> "failed", decoderInput |-> None, decoded |-> None,
          log |-> <<"GZIP decompression error">>,
          result |-> Err("Decoding")]
    ELSE LET d == IF IsGzip(bytes) THEN Gunzip(bytes).value ELSE bytes IN
         [gunzip |-> IF IsGzip(bytes) THEN "done" ELSE "none",
          decoderInput |-> Some(d),
          decoded |-> Some(IF mvtOk THEN Ok([mvt |-> d]) ELSE Err("MvtError")),
          log |-> IF mvtOk THEN << >> ELSE <<"Vector tile decoding error">>,
          result |-> IF mvtOk THEN Ok([mvt |-> d]) ELSE Err("Decoding")]

\* a slip: the raster path sniffing for gzip like the vector path
RasterDecodeInputSniffing(bytes) ==
    IF IsGzip(bytes) /\ Gunzip(bytes).ok THEN Gunzip(bytes).value ELSE bytes

\* decode_image(bytes): the fetched bytes go to the image decoder as they are
RasterDecodeInput(bytes) == bytes

\* a slip: every failure of the raster load reported as NotFound
RasterResultCoarse(decoded) == IF decoded.ok THEN decoded ELSE Err("NotFound")

\* load returns what decode_image returned
RasterResult(decoded) == decoded

\* the request-local state of a load that has not started
NewRequest ==
    [readerCalls |-> 0, coord |-> None, getTile |-> NoResult, gunzip |-> "none",
     decoderInput |-> None, decoded |-> None, log |-> << >>, result |-> NoResult]

\* get_tile up to its await: the coordinate is built and, if there is one, the
\* archive reader is called with it
GetTileCall(r) ==
    LET c == TileCoordOf(index) IN
    IF c = None
    THEN [r EXCEPT !.getTile = Err("NotFound")]
    ELSE [r EXCEPT !.coord = c, !.readerCalls = @ + 1]

\* a slip: a failed fetch is tried once more
GetTileReturnRetrying(r) ==
    [r EXCEPT !.getTile = ReaderResult(resp),
              !.readerCalls = IF resp.tag = "Err" THEN @ + 1 ELSE @]

\* get_tile after its await: the reader's answer becomes the resolver's result
GetTileReturn(r) == [r EXCEPT !.getTile = ReaderResult(resp)]

\* RasterTileLoader::load starts and runs to get_tile's await or to its error
RasterLoadStart ==
    /\ lpc["raster"] = "start"
    /\ LET r == GetTileCall(req["raster"]) IN
       IF r.getTile = NoResult
       THEN /\ req' = [req EXCEPT !["raster"] = r]
            /\ lpc' = [lpc EXCEPT !["raster"] = "await_reader"]
       ELSE /\ req' = [req EXCEPT !["raster"] = [r EXCEPT !.result = r.getTile]]
            /\ lpc' = [lpc EXCEPT !["raster"] = "done"]
    /\ UNCHANGED <<index, resp>>

\* the reader answers: the error is returned, or decode_image is called
RasterReaderReturns ==
    /\ lpc["raster"] = "await_reader"
    /\ LET r == GetTileReturn(req["raster"]) IN
       IF r.getTile.ok
       THEN /\ req' = [req EXCEPT !["raster"] =
                          [r EXCEPT !.decoderInput = Some(RasterDecodeInput(r.getTile.value))]]
            /\ lpc' = [lpc EXCEPT !["raster"] = "await_image"]
       ELSE /\ req' = [req EXCEPT !["raster"] = [r EXCEPT !.result = r.getTile]]
            /\ lpc' = [lpc EXCEPT !["raster"] = "done"]
    /\ UNCHANGED <<index, resp>>

\* the platform's decode_image answers, with an image or with its own error
RasterImageDecoded ==
    /\ lpc["raster"] = "await_image"
    /\ \E imageOk \in BOOLEAN :
          LET decoded == IF imageOk
                         THEN Ok([image |-> req["raster"].decoderInput[1]])
                         ELSE Err("ImageDecode") IN
          req' = [req EXCEPT !["raster"].decoded = Some(decoded),
                             !["raster"].result = RasterResult(decoded)]
    /\ lpc' = [lpc EXCEPT !["raster"] = "done"]
    /\ UNCHANGED <<index, resp>>

\* VectorTileLoader::load starts and runs to get_tile's await or to its error
VectorLoadStart ==
    /\ lpc["vector"] = "start"
    /\ LET r == GetTileCall(req["vector"]) IN
       IF r.getTile = NoResult
       THEN /\ req' = [req EXCEPT !["vector"] = r]
            /\ lpc' = [lpc EXCEPT !["vector"] = "await_reader"]
       ELSE /\ req' = [req EXCEPT !["vector"] =
                          [r EXCEPT !.result = Err(VectorResolverError(r.getTile.error))]]
            /\ lpc' = [lpc EXCEPT !["vector"] = "done"]
    /\ UNCHANGED <<index, resp>>

\* the reader answers: the error is mapped, or the bytes are decompressed and
\* parsed; nothing is awaited on the way, so the load ends in this step
VectorReaderReturns ==
    /\ lpc["vector"] = "await_reader"
    /\ LET r == GetTileReturn(req["vector"]) IN
       IF r.getTile.ok
       THEN \E mvtOk \in BOOLEAN :
               LET v == VectorDecode(r.getTile.value, mvtOk) IN
               req' = [req EXCEPT !["vector"] =
                          [r EXCEPT !.gunzip = v.gunzip,
                                    !.decoderInput = v.decoderInput,
                                    !.decoded = v.decoded,
                                    !.log = v.log,
                                    !.result = v.result]]
       ELSE req' = [req EXCEPT !["vector"] =
                       [r EXCEPT !.result = Err(VectorResolverError(r.getTile.error))]]
    /\ lpc' = [lpc EXCEPT !["vector"] = "done"]
    /\ UNCHANGED <<index, resp>>

InitLoad ==
    /\ CacheInit
    /\ call = NoCall
    /\ ConcIdle
    /\ index \in TileIndexes
    /\ resp \in ReaderResponses
    /\ lpc = [l \in Loads |-> "start"]
    /\ req = [l \in Loads |-> NewRequest]
    /\ CloneIdle
    /\ ReqIdle

LoadFrame == UNCHANGED <<cacheVars, call, concVars, cloneVars, reqVars>>

NextLoad ==
    \/ RasterLoadStart /\ LoadFrame
    \/ RasterReaderReturns /\ LoadFrame
    \/ RasterImageDecoded /\ LoadFrame
    \/ VectorLoadStart /\ LoadFrame
    \/ VectorReaderReturns /\ LoadFrame

SpecLoad == InitLoad /\ [][NextLoad]_vars

(***************************************************************************)
(* Properties of the loads.                                                *)
(***************************************************************************)
\* a tile index that names no tile: a zoom above 255, or x or y outside the
\* 2^z by 2^z grid of its zoom
Unrepresentable(i) ==
    \/ i.z >= U8Modulus
    \/ i.x >= 2 ^ i.z
    \/ i.y >= 2 ^ i.z

HasGzipMagic(bytes) == Len(bytes) >= 2 /\ bytes[1] = GzipId1 /\ bytes[2] = GzipId2

\* the load has the bytes of the tile
Fetched(l) == lpc[l] \in {"await_image", "done"} /\ req[l].getTile.ok

\* C3: for every TileIndex with z > 255, or with x or y not representable at
\* its zoom, get_tile fails with NotFound and the archive reader is never
\* called for the request.
C3_InvalidIndexNeverReachesReader ==
    Unrepresentable(index) =>
        \A l \in Loads :
            /\ req[l].readerCalls = 0
            /\ lpc[l] # "start" => req[l].getTile = Err("NotFound")

\* C4: on the vector path every fetched payload of two bytes or more that
\* starts with 0x1F, 0x8B is decompressed, and the vector-tile decoder, when
\* it runs, is given the decompressed bytes.
C4_GzipMagicAlwaysDecompressed ==
    (lpc["vector"] = "done" /\ Fetched("vector")
        /\ HasGzipMagic(req["vector"].getTile.value))
    => /\ req["vector"].gunzip # "none"
       /\ req["vector"].decoderInput # None
             => /\ Gunzip(req["vector"].getTile.value).ok
                /\ req["vector"].decoderInput =
                      Some(Gunzip(req["vector"].getTile.value).value)

\* C5: on the vector path a fetched payload of fewer than two bytes, or whose
\* first two bytes are not 0x1F, 0x8B, is not decompressed, and the
\* vector-tile decoder is given exactly the fetched bytes.
C5_OtherPayloadsPassUnchanged ==
    (lpc["vector"] = "done" /\ Fetched("vector")
        /\ ~HasGzipMagic(req["vector"].getTile.value))
    => /\ req["vector"].gunzip = "none"
       /\ req["vector"].decoderInput = Some(resp.bytes)

\* a payload starting with 0x1F but not with the magic number went to the
\* decoder as fetched
C5_Witness ==
    /\ lpc["vector"] = "done" /\ Fetched("vector")
    /\ Len(resp.bytes) > 2 /\ resp.bytes[1] = GzipId1 /\ resp.bytes[2] # GzipId2
    /\ req["vector"].decoderInput = Some(resp.bytes)
    /\ req["vector"].result.ok

\* C6: for the same TileIndex and the same transport failure of the fetch, the
\* raster load returns GalileoError::NotFound and the vector load returns
\* TileLoadError::Network.
C6_TransportFailurePerPath ==
    resp.tag = "Err" =>
        /\ (lpc["raster"] = "done" /\ req["raster"].readerCalls > 0)
              => req["raster"].result = Err("NotFound")
        /\ (lpc["vector"] = "done" /\ req["vector"].readerCalls > 0)
              => req["vector"].result = Err("Network")

\* both loads asked the reader for the same coordinate, the fetch failed, and
\* each returned its own error
C6_Witness ==
    /\ resp.tag = "Err"
    /\ \A l \in Loads : lpc[l] = "done" /\ req[l].readerCalls = 1
    /\ req["raster"].coord = req["vector"].coord
    /\ req["raster"].result = Err("NotFound")
    /\ req["vector"].result = Err("Network")

\* C7: the vector load returns Network exactly when get_tile failed, whatever
\* the cause (no coordinate, reader error, reader knows no such tile); with the
\* bytes obtained it never returns Network, and without them never Decoding.
C7_NetworkIffResolverFailed ==
    lpc["vector"] = "done" =>
        /\ ~req["vector"].getTile.ok
              <=> (TileCoordOf(index) = None \/ resp.tag \in {"Err", "None"})
        /\ req["vector"].result = Err("Network") <=> ~req["vector"].getTile.ok
        /\ req["vector"].result = Err("Decoding") => req["vector"].getTile.ok

\* the reader was asked and knew no such tile: the vector load says Network
C7_Witness ==
    /\ lpc["vector"] = "done"
    /\ resp.tag = "None"
    /\ req["vector"].readerCalls = 1
    /\ req["vector"].result = Err("Network")

\* C8: on the vector path a failed decompression and a failed vector-tile
\* decoding both give Decoding; after a failed decompression the decoder is
\* not run; the cause is in the log when the error is returned.
C8_DecodingErrors ==
    lpc["vector"] = "done" =>
        /\ (Fetched("vector") /\ Len(resp.bytes) > 2 /\ HasGzipMagic(resp.bytes)
               /\ ~Gunzip(resp.bytes).ok)
              => req["vector"].gunzip = "failed"
        /\ req["vector"].gunzip = "failed"
              => /\ req["vector"].result = Err("Decoding")
                 /\ req["vector"].decoderInput = None
                 /\ req["vector"].decoded = None
                 /\ req["vector"].log = <<"GZIP decompression error">>
        /\ (req["vector"].decoded # None /\ ~req["vector"].decoded[1].ok)
              => /\ req["vector"].result = Err("Decoding")
                 /\ req["vector"].log = <<"Vector tile decoding error">>

\* a payload with the magic number that is no gzip stream: Decoding, logged,
\* and the decoder never ran
C8_Witness ==
    /\ lpc["vector"] = "done"
    /\ req["vector"].gunzip = "failed"
    /\ req["vector"].result = Err("Decoding")
    /\ req["vector"].decoderInput = None
    /\ Len(req["vector"].log) = 1

\* C9: on the raster path, whenever get_tile succeeds, the image decoder is
\* given exactly the fetched bytes, with no compression check and no
\* decompression, also when they start with 0x1F, 0x8B.
C9_RasterBytesUnmodified ==
    Fetched("raster") =>
        /\ req["raster"].decoderInput = Some(resp.bytes)
        /\ req["raster"].gunzip = "none"

\* a well-formed gzip stream was handed to the image decoder as fetched
C9_Witness ==
    /\ Fetched("raster")
    /\ HasGzipMagic(resp.bytes)
    /\ Gunzip(resp.bytes).ok
    /\ Gunzip(resp.bytes).value # << >>
    /\ req["raster"].decoderInput = Some(resp.bytes)

\* C10: on the raster path a failed get_tile is returned as it is, NotFound,
\* and the image decoder is never called; after a successful get_tile the
\* load returns exactly what the image decoder returned, a failure included.
C10_RasterResult ==
    lpc["raster"] = "done" =>
        /\ ~req["raster"].getTile.ok
              => /\ req["raster"].result = Err("NotFound")
                 /\ req["raster"].result = req["raster"].getTile
                 /\ req["raster"].decoderInput = None
                 /\ req["raster"].decoded = None
        /\ req["raster"].getTile.ok
              => /\ req["raster"].decoded # None
                 /\ req["raster"].result = req["raster"].decoded[1]

\* the tile was fetched and the image decoder failed: its error is the result
C10_Witness ==
    /\ lpc["raster"] = "done"
    /\ req["raster"].getTile.ok
    /\ req["raster"].decoded = Some(Err("ImageDecode"))
    /\ req["raster"].result = Err("ImageDecode")

\* C11: every load, raster or vector, calls the archive reader's get_tile at
\* most once; after a failed fetch the load has ended with an error, and it
\* made no second call.
C11_SingleFetchPerRequest ==
    \A l \in Loads :
        /\ req[l].readerCalls <= 1
        /\ lpc[l] = "await_reader" => req[l].readerCalls = 1
        /\ (req[l].getTile # NoResult /\ ~req[l].getTile.ok)
              => lpc[l] = "done" /\ ~req[l].result.ok

\* the raster load asked the reader once, was told of no such tile and ended
C11_Witness ==
    /\ lpc["raster"] = "done"
    /\ resp.tag = "None"
    /\ req["raster"].readerCalls = 1
    /\ req["raster"].result = Err("NotFound")
    /\ lpc["vector"] = "await_reader"

\* C17: get_tile builds the coordinate from the truncated index: the reader is
\* asked for (z mod 2^8, x mod 2^32, y mod 2^32).  A TileIndex is therefore
\* resolved as the index with z reduced modulo 256 is, and so are all indexes
\* whose z differ from it by a multiple of 256 with x and y equal.
C17_CoordinateFromTruncatedIndex ==
    \A l \in Loads :
        lpc[l] # "start" =>
            LET c == TileCoordNew(index.z % U8Modulus, AsU32(index.x), AsU32(index.y)) IN
            /\ req[l].coord = c
            /\ req[l].readerCalls = (IF c = None THEN 0 ELSE 1)
            /\ \A j \in TileIndexes :
                  (j.x = index.x /\ j.y = index.y /\ (j.z - index.z) % U8Modulus = 0)
                     => TileCoordOf(j) = req[l].coord

\* zoom 257 was resolved as zoom 1: the reader was asked for (1, 1, 0)
C17_Witness ==
    /\ index = [z |-> 257, x |-> 1, y |-> 0]
    /\ lpc["vector"] = "done"
    /\ req["vector"].coord = Some([z |-> 1, x |-> AsU32(1), y |-> AsU32(0)])
    /\ req["vector"].readerCalls = 1
    /\ req["vector"].result.ok

(***************************************************************************)
(* Further properties of whole cache calls (SpecSeq).                      *)
(***************************************************************************)
\* C14: insert_dir(offset, d) stores d for the offset, replacing an earlier
\* directory as a whole; a second insert_dir(offset, d) right after the first
\* leaves the map, and so every lookup result, as the first left it.
C14_InsertReplacesAndIsIdempotent ==
    [][call'.op = "insert" =>
          /\ MapGet(cache', call'.offset) = SomeDir(call'.directory)
          /\ call'.again =>
                /\ cache' = cache
                /\ \A o \in Offsets, t \in TileIds :
                      CacheLookup(cache', o, t) = CacheLookup(cache, o, t)]_vars

\* the same insert_dir ran twice in a row, on an offset whose directory had
\* been replaced before
C14_Witness ==
    /\ call.op = "insert"
    /\ call.again
    /\ call.offset \in replaced
    /\ MapGet(cache, call.offset) = SomeDir(call.directory)

\* C15: the cache never evicts: once a directory was inserted for an offset,
\* every later get_dir_entry for it, after whatever inserts and lookups on any
\* offsets, returns Found or NotFound, never NotCached.
C15_NeverEvicts ==
    /\ \A o \in Offsets :
          lastInserted[o] # NoDir =>
              \A t \in TileIds : CacheLookup(cache, o, t) # NotCached
    /\ (call.op = "get" /\ lastInserted[call.offset] # NoDir)
          => call.result.tag \in {"Found", "NotFound"}

\* every offset had its directory inserted and replaced, and a lookup still
\* finds the offset cached
C15_Witness ==
    /\ call.op = "get"
    /\ call.result.tag = "NotFound"
    /\ replaced = Offsets

\* C18: get_dir_entry never changes the map, whatever it returns, and
\* insert_dir(offset, d) leaves the directory of every other offset as it was.
C18_CallsLeaveTheRestAlone ==
    [][/\ call'.op = "get" => cache' = cache
       /\ call'.op = "insert" =>
             \A o \in Offsets \ {call'.offset} : MapGet(cache', o) = MapGet(cache, o)]_vars

\* an insert_dir ran while another offset had its directory in the map
C18_Witness ==
    /\ call.op = "insert"
    /\ ~call.again
    /\ \E o \in Offsets \ {call.offset} :
          /\ MapGet(cache, o) # NoDir
          /\ MapGet(cache, o) = lastInserted[o]

(***************************************************************************)
(* SpecClone: PmtilesDirCache derives Clone, and its one field is an Arc.  *)
(* Values h1 and h2 are made by cloning; calls go through any value.  The  *)
(* variable cache stays the map of the allocation new() made.              *)
(***************************************************************************)
\* a slip: a clone that copies the map into an allocation of its own
CloneArcDeep(a, fresh) == fresh

\* Arc::clone: another pointer to the same allocation
CloneArc(a, fresh) == a

Live == {h \in Handles : arcOf[h] # NoAlloc}

\* #[derive(Clone)]: the new value's field is the clone of the old value's
Clone(src, dst) ==
    /\ src \in Live
    /\ dst \notin Live
    /\ LET fresh == CHOOSE a \in Allocs : \A h \in Handles : arcOf[h] # a
           a == CloneArc(arcOf[src], fresh) IN
       /\ arcOf' = [arcOf EXCEPT ![dst] = a]
       /\ heap' = [heap EXCEPT ![a] = heap[arcOf[src]]]
    /\ call' = [op |-> "clone", handle |-> dst]
    /\ UNCHANGED <<cache, lastInserted, replaced, insertedVia>>

\* get_dir_entry through the value h
CloneGetDirEntry(h, offset, tile_id) ==
    /\ h \in Live
    /\ call' = [op |-> "get", handle |-> h, offset |-> offset, tile_id |-> tile_id,
                result |-> CacheLookup(heap[arcOf[h]], offset, tile_id)]
    /\ UNCHANGED <<cacheVars, cloneVars>>

\* insert_dir through the value h
CloneInsertDir(h, offset, directory) ==
    /\ h \in Live
    /\ heap' = [heap EXCEPT ![arcOf[h]] = MapInsert(@, offset, directory)]
    /\ cache' = heap'["a0"]
    /\ NoteInsert(offset, directory)
    /\ insertedVia' = [insertedVia EXCEPT ![offset] = h]
    /\ call' = [op |-> "insert", handle |-> h, offset |-> offset,
                directory |-> directory]
    /\ UNCHANGED arcOf

InitClone ==
    /\ CacheInit
    /\ call = NoCall
    /\ ConcIdle
    /\ LoadIdle
    /\ CloneIdle
    /\ ReqIdle

CloneFrame == UNCHANGED <<concVars, loadVars, reqVars>>

NextClone ==
    \/ \E src \in Handles, dst \in Handles : Clone(src, dst) /\ CloneFrame
    \/ \E h \in Handles, offset \in Offsets, tile_id \in TileIds :
          CloneGetDirEntry(h, offset, tile_id) /\ CloneFrame
    \/ \E h \in Handles, offset \in Offsets, directory \in ConcDirs :
          CloneInsertDir(h, offset, directory) /\ CloneFrame

SpecClone == InitClone /\ [][NextClone]_vars

\* C19: all clones of a PmtilesDirCache share one map: after insert_dir
\* through any of them, get_dir_entry for that offset through every other one
\* returns what the inserted directory defines, and never NotCached.
C19_ClonesShareOneMap ==
    /\ \A h \in Live : arcOf[h] = arcOf["h0"]
    /\ call.op = "get" =>
          /\ call.result = Expected(call.offset, call.tile_id)
          /\ lastInserted[call.offset] # NoDir => call.result # NotCached

\* a lookup through one clone finds the entry of a directory that replaced an
\* earlier one and was inserted through another clone, made after the first
\* insert
C19_Witness ==
    /\ call.op = "get"
    /\ call.handle = "h2"
    /\ insertedVia[call.offset] = "h1"
    /\ call.offset \in replaced
    /\ call.result.tag = "Found"

(***************************************************************************)
(* SpecReq: tile requests inside the archive reader, run by parallel       *)
(* callers.  A request looks its leaf directory up in the cache; on        *)
(* NotCached it awaits the transport for the directory, finds its entry    *)
(* and inserts the directory; with an entry it awaits the transport for    *)
(* the tile.  The cache calls are those of SpecConc, step by step; they    *)
(* await nothing, so a request is suspended, and can be dropped, only at   *)
(* the two fetches.                                                        *)
(***************************************************************************)
\* the directory the archive holds at an offset: the same at every fetch
ArchiveDir(offset) == IF offset = 0 THEN DirA ELSE DirB

Suspended(p) == task[p].stage \in {"await_fetch", "await_tile"}

\* a request starts and calls get_dir_entry
ReqStart(p, offset, tile_id) ==
    /\ task[p].stage \in {"none", "done", "dropped"}
    /\ CallGetDirEntry(p, offset, tile_id)
    /\ task' = [task EXCEPT ![p] =
                   [stage |-> "lookup", offset |-> offset, tile_id |-> tile_id,
                    missed |-> FALSE, inserted |-> FALSE, outcome |-> "none"]]

\* get_dir_entry has returned: fetch the directory, fetch the tile, or no tile
LookupReturns(p) ==
    /\ task[p].stage = "lookup"
    /\ arg[p].op = "get"
    /\ Return(p)
    /\ task' = [task EXCEPT ![p] =
                   IF res[p].value = NotCached
                   THEN [@ EXCEPT !.stage = "await_fetch", !.missed = TRUE]
                   ELSE IF res[p].value = NotFound
                        THEN [@ EXCEPT !.stage = "done", !.outcome = "no tile"]
                        ELSE [@ EXCEPT !.stage = "await_tile"]]

\* the transport fails to deliver the directory
FetchDirFails(p) ==
    /\ task[p].stage = "await_fetch"
    /\ task' = [task EXCEPT ![p] = [@ EXCEPT !.stage = "done", !.outcome = "error"]]
    /\ UNCHANGED <<cache, concVars>>

\* the transport delivers the directory: insert_dir is called with it
FetchDirReturns(p) ==
    /\ task[p].stage = "await_fetch"
    /\ CallInsertDir(p, task[p].offset, ArchiveDir(task[p].offset))
    /\ task' = [task EXCEPT ![p] = [@ EXCEPT !.stage = "insert"]]

\* insert_dir has returned: the entry found in the fetched directory decides
InsertReturns(p) ==
    /\ task[p].stage = "insert"
    /\ arg[p].op = "insert"
    /\ Return(p)
    /\ task' = [task EXCEPT ![p] =
                   IF FindTileId(arg[p].directory, task[p].tile_id) = NoEntry
                   THEN [@ EXCEPT !.stage = "done", !.inserted = TRUE,
                                  !.outcome = "no tile"]
                   ELSE [@ EXCEPT !.stage = "await_tile", !.inserted = TRUE]]

\* the transport answers the fetch of the tile
TileReturns(p) ==
    /\ task[p].stage = "await_tile"
    /\ \E outcome \in {"tile", "error"} :
          task' = [task EXCEPT ![p] = [@ EXCEPT !.stage = "done", !.outcome = outcome]]
    /\ UNCHANGED <<cache, concVars>>

\* the caller abandons the request: its future is dropped where it is suspended
DropRequest(p) ==
    /\ Suspended(p)
    /\ task' = [task EXCEPT ![p] = [@ EXCEPT !.stage = "dropped"]]
    /\ UNCHANGED <<cache, concVars>>

InitReq ==
    /\ CacheInit
    /\ call = NoCall
    /\ ConcIdle
    /\ LoadIdle
    /\ CloneIdle
    /\ ReqIdle

\* what no step of a request touches
ReqFrame == UNCHANGED <<call, loadVars, cloneVars>>

Ghosts == <<lastInserted, replaced>>

NextReq ==
    \/ \E p \in Procs, offset \in Offsets, tile_id \in TileIds :
          ReqStart(p, offset, tile_id) /\ UNCHANGED Ghosts /\ ReqFrame
    \/ \E p \in Procs : AcquireRead(p) /\ UNCHANGED <<Ghosts, task>> /\ ReqFrame
    \/ \E p \in Procs : ReadMap(p) /\ UNCHANGED <<Ghosts, task>> /\ ReqFrame
    \/ \E p \in Procs : ReleaseRead(p) /\ UNCHANGED <<Ghosts, task>> /\ ReqFrame
    \/ \E p \in Procs : LookupReturns(p) /\ UNCHANGED Ghosts /\ ReqFrame
    \/ \E p \in Procs : FetchDirFails(p) /\ UNCHANGED Ghosts /\ ReqFrame
    \/ \E p \in Procs : FetchDirReturns(p) /\ UNCHANGED Ghosts /\ ReqFrame
    \/ \E p \in Procs : AcquireWrite(p) /\ UNCHANGED <<Ghosts, task>> /\ ReqFrame
    \/ \E p \in Procs : InsertBegin(p) /\ UNCHANGED <<Ghosts, task>> /\ ReqFrame
    \/ \E p \in Procs :
          InsertEnd(p) /\ NoteInsert(arg[p].offset, arg[p].directory)
             /\ UNCHANGED task /\ ReqFrame
    \/ \E p \in Procs : ReleaseWrite(p) /\ UNCHANGED <<Ghosts, task>> /\ ReqFrame
    \/ \E p \in Procs : InsertReturns(p) /\ UNCHANGED Ghosts /\ ReqFrame
    \/ \E p \in Procs : TileReturns(p) /\ UNCHANGED Ghosts /\ ReqFrame
    \/ \E p \in Procs : DropRequest(p) /\ UNCHANGED Ghosts /\ ReqFrame

SpecReq == InitReq /\ [][NextReq]_vars

\* C12: no cache lock is held across a suspension point: a request that is
\* suspended at a fetch holds neither the read nor the write lock, and a lock
\* is held only inside one lookup or one insert.
C12_NoLockAcrossSuspension ==
    \A p \in Procs :
        /\ Suspended(p) =>
              /\ p \notin rwlock.readers
              /\ rwlock.writer # p
              /\ p \notin mapWriting
        /\ p \in rwlock.readers => task[p].stage = "lookup" /\ HoldsRead(p)
        /\ rwlock.writer = p => task[p].stage = "insert" /\ HoldsWrite(p)

\* one request waits for the transport while the other is inside insert_dir
\* with the write lock
C12_Witness ==
    \E p \in Procs : \E q \in Procs \ {p} :
        /\ task[p].stage = "await_fetch"
        /\ task[q].stage = "insert"
        /\ rwlock.writer = q
        /\ q \in mapWriting

\* the map a single fetch-and-insert per offset leaves behind
SingleInsertMap ==
    [o \in {x \in Offsets : lastInserted[x] # NoDir} |-> ArchiveDir(o)]

\* both requests missed on the same offset and each fetched and inserted
BothMissedAndInserted ==
    /\ \A p \in Procs :
          /\ task[p].stage \in {"await_tile", "done"}
          /\ task[p].missed
          /\ task[p].inserted
    /\ \A p \in Procs, q \in Procs : task[p].offset = task[q].offset

\* C13: concurrent misses are not coalesced, and it does no harm: when two
\* requests both saw NotCached for an offset and each fetched and inserted
\* its directory, the map is the one a single fetch-and-insert leaves, and
\* lookups give what that directory defines.
C13_DuplicateInsertsAreHarmless ==
    /\ cache = SingleInsertMap
    /\ BothMissedAndInserted =>
          \A p \in Procs, t \in TileIds :
              CacheLookup(cache, task[p].offset, t) =
                 (IF ArchiveDir(task[p].offset)[t] = NoEntry
                  THEN NotFound
                  ELSE Found(ArchiveDir(task[p].offset)[t]))

\* the interleaving exists: two requests for the same offset, both NotCached,
\* two fetches, two inserts
C13_Witness ==
    /\ BothMissedAndInserted
    /\ \A p \in Procs : task[p].offset \notin replaced

\* C16: a request dropped at a suspension point leaves the cache sound: every
\* offset in the map holds a directory an insert_dir stored as a whole, the
\* dropped request holds no lock, and whoever holds a lock is inside a lookup
\* or an insert that runs on, so other callers are not blocked for good.
C16_DropLeavesCacheSound ==
    /\ \A o \in DOMAIN cache : lastInserted[o] = SomeDir(cache[o])
    /\ \A p \in Procs :
          task[p].stage = "dropped" =>
              /\ p \notin rwlock.readers
              /\ rwlock.writer # p
              /\ p \notin mapWriting
              /\ pc[p] = "idle"
    /\ \A p \in rwlock.readers : HoldsRead(p)
    /\ rwlock.writer # NoProc => HoldsWrite(rwlock.writer)
    /\ \A p \in mapWriting : pc[p] = "ins_end"

\* one request was dropped while it waited for a directory; the other then
\* missed on the same offset, fetched, inserted and went on
C16_Witness ==
    \E p \in Procs : \E q \in Procs \ {p} :
        /\ task[p].stage = "dropped"
        /\ task[p].missed /\ ~task[p].inserted
        /\ task[q].stage = "await_tile"
        /\ task[q].missed /\ task[q].inserted
        /\ task[q].offset = task[p].offset
        /\ MapGet(cache, task[p].offset) = SomeDir(ArchiveDir(task[p].offset))

====
